---- MODULE Spec2Model ----
(***************************************************************************)
(* The perfume storefront of src/app.py: the session cart (add_to_cart,    *)
(* view_cart), the checkout that turns the cart into an Orders document,   *)
(* customer login and registration, and the catalog and customer edits of  *)
(* the admin panel that those handlers observe.                            *)
(*                                                                         *)
(* Document fields that no handler reads in a condition or a computation   *)
(* (a product's name and brand, a customer's name, the date strings) are   *)
(* left out of the documents.  db and mongo.db are taken to reach the same *)
(* collections.  A session is used by one request at a time.               *)
(***************************************************************************)
EXTENDS Integers, Sequences, FiniteSets, TLC

\* ---------------------------------------------------------------- bounds
MaxAdds      == 2   \* lines appended to session carts in one behaviour
MaxOrders    == 2   \* documents the Orders collection may hold
MaxCustomers == 2   \* documents ever inserted into Customers

Sessions   == {"s1", "s2"}          \* browser sessions (one signed cookie each)
Clients    == {"r1", "r2"}          \* clients posting the register form
ProductIds == {"p1", "p2"}          \* _ids of the Products documents
Prices     == {1, 2}                \* IntegerField('Price')
Emails     == {"a@x.io", "b@x.io"}
Phones     == {"111111", "222222"}

\* ------------------------------------------------------------- documents
NoUser == <<>>         \* the session holds no 'user_id' key
NoForm == <<>>         \* the client has no register request in flight
NoBody == <<>>         \* a redirect or an error page

VARIABLES
  Products,    \* db.Products: the price of each product document, by _id
  Customers,   \* mongo.db.Customers: [email, phone] of each document, by _id
  nCustomers,  \* Customers documents inserted so far (_ids are never reused)
  Orders,      \* db.Orders, in insertion order
  cart,        \* session.get('cart', []) of each session
  user_id,     \* session['user_id'] of each session, or NoUser
  inCheckout,  \* the session's checkout is between insert_one and session.pop
  regForm,     \* the form of a register request between find_one and insert_one
  nAdded,      \* lines appended to carts so far
  response     \* route, requester and outcome of the last step taken

vars == <<Products, Customers, nCustomers, Orders, cart, user_id, inCheckout,
          regForm, nAdded, response>>

\* str(ObjectId) and ObjectId(str): the string of an id names that id, any
\* other string raises InvalidId.
Str(oid) == <<"oid", oid>>
IsObjectId(s) == Len(s) = 2 /\ s[1] = "oid"
ObjectId(s) == s[2]
UrlIds == {Str(p) : p \in ProductIds} \cup {<<"favicon.ico">>}

\* int(request.form.get('quantity')): the fields int() parses, and their values
IntOf == ("-1" :> (0 - 1)) @@ ("0" :> 0) @@ ("1" :> 1) @@ ("2" :> 2)
QuantityFields == DOMAIN IntOf \cup {"two"}
CanInt(field) == field \in DOMAIN IntOf

\* CustomerRegistrationForm: Email() and Length(min=6) of the posted fields
FormEmails == Emails \cup {"nobody"}
FormPhones == Phones \cup {"123"}
EmailValidator(e) == e \in Emails
LengthValidator(ph) == Len(ph) >= 6
validate(form) == EmailValidator(form.email) /\ LengthValidator(form.phone)
Forms == [email : FormEmails, phone : FormPhones]

\* status: the HTTP status of the response; "pending" while the handler is
\* still running, "dropped" when the request ended without a response.
Resp(route, who, status, body) ==
  [route |-> route, who |-> who, status |-> status, body |-> body]

\* collection.find_one({"_id": ...}) / find_one({"email": ...}): whether a
\* document matches, and the first match in insertion order.
HasProduct(p) == p \in DOMAIN Products
EmailMatches(email) == {i \in DOMAIN Customers : Customers[i].email = email}
HasEmail(email) == EmailMatches(email) # {}
FirstByEmail(email) ==
  CHOOSE i \in EmailMatches(email) : \A j \in EmailMatches(email) : i <= j

\* Mutant of SumCart: the total re-priced from the catalog at checkout.
RECURSIVE SumCart_current(_)
SumCart_current(c) ==
  IF c = <<>> THEN 0
  ELSE (IF HasProduct(ObjectId(c[1].product_id))
        THEN Products[ObjectId(c[1].product_id)]
        ELSE c[1].price) * c[1].quantity + SumCart_current(Tail(c))

\* sum(item['price'] * item['quantity'] for item in cart)
RECURSIVE SumCart(_)
SumCart(c) ==
  IF c = <<>> THEN 0
  ELSE c[1].price * c[1].quantity + SumCart(Tail(c))

Idle(s) == ~inCheckout[s]

\* ---------------------------------------------------------- add_to_cart
CartLine(product_id, quantity) ==
  [product_id |-> product_id,
   price      |-> Products[ObjectId(product_id)],
   quantity   |-> quantity]

\* Mutant of add_to_cart: a repeated product is merged into its first line.
add_to_cart_merge(s, product_id, field) ==
  /\ Idle(s)
  /\ IF ~CanInt(field) \/ ~IsObjectId(product_id)
     THEN /\ response' = Resp("add_to_cart", s, "500", NoBody)
          /\ UNCHANGED <<cart, nAdded>>
     ELSE /\ IF HasProduct(ObjectId(product_id))
             THEN /\ nAdded < MaxAdds
                  /\ nAdded' = nAdded + 1
                  /\ LET same == {k \in 1..Len(cart[s]) :
                                    cart[s][k].product_id = product_id}
                     IN IF same = {}
                        THEN cart' = [cart EXCEPT
                               ![s] = Append(@, CartLine(product_id, IntOf[field]))]
                        ELSE LET k == CHOOSE k \in same : \A j \in same : k <= j
                             IN cart' = [cart EXCEPT
                                  ![s][k].quantity = @ + IntOf[field]]
             ELSE UNCHANGED <<cart, nAdded>>
          /\ response' = Resp("add_to_cart", s, "302", NoBody)
  /\ UNCHANGED <<Products, Customers, nCustomers, Orders, user_id, inCheckout,
                 regForm>>

add_to_cart(s, product_id, field) ==
  /\ Idle(s)
  /\ IF ~CanInt(field) \/ ~IsObjectId(product_id)
     THEN \* int() or ObjectId() raises: a 500 page, the session untouched
          /\ response' = Resp("add_to_cart", s, "500", NoBody)
          /\ UNCHANGED <<cart, nAdded>>
     ELSE /\ IF HasProduct(ObjectId(product_id))
             THEN /\ nAdded < MaxAdds
                  /\ nAdded' = nAdded + 1
                  /\ cart' = [cart EXCEPT
                       ![s] = Append(@, CartLine(product_id, IntOf[field]))]
             ELSE UNCHANGED <<cart, nAdded>>
          /\ response' = Resp("add_to_cart", s, "302", NoBody)
  /\ UNCHANGED <<Products, Customers, nCustomers, Orders, user_id, inCheckout,
                 regForm>>

\* ------------------------------------------------------------ view_cart
\* Mutant of ViewLoop: the lines are priced from the cart's own snapshot.
RECURSIVE ViewLoop_snapshot(_, _, _)
ViewLoop_snapshot(items, cart_details, total_price) ==
  IF items = <<>> THEN <<cart_details, total_price>>
  ELSE LET item == items[1]
           p == ObjectId(item.product_id)
       IN IF HasProduct(p)
          THEN ViewLoop_snapshot(Tail(items),
                        Append(cart_details,
                               [price    |-> item.price,
                                quantity |-> item.quantity,
                                total    |-> item.price * item.quantity]),
                        total_price + item.price * item.quantity)
          ELSE ViewLoop_snapshot(Tail(items), cart_details, total_price)

\* The loop of view_cart over the cart, carrying cart_details and total_price.
RECURSIVE ViewLoop(_, _, _)
ViewLoop(items, cart_details, total_price) ==
  IF items = <<>> THEN <<cart_details, total_price>>
  ELSE LET item == items[1]
           p == ObjectId(item.product_id)
       IN IF HasProduct(p)
          THEN ViewLoop(Tail(items),
                        Append(cart_details,
                               [price    |-> Products[p],
                                quantity |-> item.quantity,
                                total    |-> Products[p] * item.quantity]),
                        total_price + Products[p] * item.quantity)
          ELSE ViewLoop(Tail(items), cart_details, total_price)

view_cart(s) ==
  /\ Idle(s)
  /\ response' = Resp("view_cart", s, "200", ViewLoop(cart[s], <<>>, 0))
  /\ UNCHANGED <<Products, Customers, nCustomers, Orders, cart, user_id,
                 inCheckout, regForm, nAdded>>

\* ------------------------------------------------------------- checkout
\* Mutant of Order: the lines are resolved against the catalog, as view_cart
\* resolves them, before they are stored.
Order_resolved(s) ==
  LET lines == SelectSeq(cart[s], LAMBDA l : HasProduct(ObjectId(l.product_id)))
  IN [customer_id |-> user_id[s],
      products    |-> lines,
      total_price |-> SumCart(lines),
      status      |-> "pending"]

Order(s) ==
  [customer_id |-> user_id[s],
   products    |-> cart[s],
   total_price |-> SumCart(cart[s]),
   status      |-> "pending"]

\* Mutant of checkout: the `if not cart` test is missing.
checkout_no_empty_test(s) ==
  /\ Idle(s)
  /\ IF user_id[s] = NoUser
     THEN /\ response' = Resp("checkout", s, "500", NoBody)
          /\ UNCHANGED <<Orders, inCheckout, cart>>
     ELSE /\ Len(Orders) < MaxOrders
          /\ Orders' = Append(Orders, Order(s))
          /\ inCheckout' = [inCheckout EXCEPT ![s] = TRUE]
          /\ response' = Resp("checkout", s, "pending", NoBody)
          /\ UNCHANGED cart
  /\ UNCHANGED <<Products, Customers, nCustomers, user_id, regForm, nAdded>>

\* Mutant of checkout: session.pop('cart') runs before insert_one.
checkout_pop_first(s) ==
  /\ Idle(s)
  /\ IF cart[s] = <<>>
     THEN /\ response' = Resp("checkout", s, "302", NoBody)
          /\ UNCHANGED <<Orders, inCheckout, cart>>
     ELSE IF user_id[s] = NoUser
     THEN /\ response' = Resp("checkout", s, "500", NoBody)
          /\ UNCHANGED <<Orders, inCheckout, cart>>
     ELSE /\ Len(Orders) < MaxOrders
          /\ cart' = [cart EXCEPT ![s] = <<>>]
          /\ Orders' = Append(Orders, Order(s))
          /\ inCheckout' = [inCheckout EXCEPT ![s] = TRUE]
          /\ response' = Resp("checkout", s, "pending", NoBody)
  /\ UNCHANGED <<Products, Customers, nCustomers, user_id, regForm, nAdded>>

\* The request up to and including db.Orders.insert_one(order).
checkout(s) ==
  /\ Idle(s)
  /\ IF cart[s] = <<>>
     THEN /\ response' = Resp("checkout", s, "302", NoBody)
          /\ UNCHANGED <<Orders, inCheckout>>
     ELSE IF user_id[s] = NoUser
     THEN \* session['user_id'] raises KeyError
          /\ response' = Resp("checkout", s, "500", NoBody)
          /\ UNCHANGED <<Orders, inCheckout>>
     ELSE /\ Len(Orders) < MaxOrders
          /\ Orders' = Append(Orders, Order(s))
          /\ inCheckout' = [inCheckout EXCEPT ![s] = TRUE]
          /\ response' = Resp("checkout", s, "pending", NoBody)
  /\ UNCHANGED <<Products, Customers, nCustomers, cart, user_id, regForm,
                 nAdded>>

\* Mutant of checkout_pop: the redirect is sent without session.pop('cart').
checkout_pop_keeps_cart(s) ==
  /\ inCheckout[s]
  /\ inCheckout' = [inCheckout EXCEPT ![s] = FALSE]
  /\ response' = Resp("checkout", s, "302", NoBody)
  /\ UNCHANGED <<Products, Customers, nCustomers, Orders, cart, user_id,
                 regForm, nAdded>>

\* session.pop('cart', None) and the redirect.
checkout_pop(s) ==
  /\ inCheckout[s]
  /\ cart' = [cart EXCEPT ![s] = <<>>]
  /\ inCheckout' = [inCheckout EXCEPT ![s] = FALSE]
  /\ response' = Resp("checkout", s, "302", NoBody)
  /\ UNCHANGED <<Products, Customers, nCustomers, Orders, user_id, regForm,
                 nAdded>>

\* The request ends after insert_one and before session.pop (the worker is
\* killed, or the connection is lost once the write was applied): the cookie
\* the browser holds still carries the cart.
checkout_stop(s) ==
  /\ inCheckout[s]
  /\ inCheckout' = [inCheckout EXCEPT ![s] = FALSE]
  /\ response' = Resp("checkout", s, "dropped", NoBody)
  /\ UNCHANGED <<Products, Customers, nCustomers, Orders, cart, user_id,
                 regForm, nAdded>>

\* ---------------------------------------------------------------- login
login(s, email, phone) ==
  /\ Idle(s)
  /\ IF HasEmail(email) /\ Customers[FirstByEmail(email)].phone = phone
     THEN /\ user_id' = [user_id EXCEPT ![s] = Str(FirstByEmail(email))]
          /\ response' = Resp("login", s, "302", NoBody)
     ELSE /\ response' = Resp("login", s, "401", NoBody)
          /\ UNCHANGED user_id
  /\ UNCHANGED <<Products, Customers, nCustomers, Orders, cart, inCheckout,
                 regForm, nAdded>>

\* ------------------------------------------------------------- register
\* The request up to the existing_user test.
register(c, form) ==
  /\ regForm[c] = NoForm
  /\ IF ~validate(form)
     THEN /\ response' = Resp("register", c, "400", NoBody)
          /\ UNCHANGED regForm
     ELSE IF HasEmail(form.email)
     THEN /\ response' = Resp("register", c, "400", NoBody)
          /\ UNCHANGED regForm
     ELSE /\ regForm' = [regForm EXCEPT ![c] = <<form>>]
          /\ response' = Resp("register", c, "pending", NoBody)
  /\ UNCHANGED <<Products, Customers, nCustomers, Orders, cart, user_id,
                 inCheckout, nAdded>>

\* mongo.db.Customers.insert_one(customer) and the redirect.
register_insert(c) ==
  /\ regForm[c] # NoForm
  /\ nCustomers < MaxCustomers
  /\ nCustomers' = nCustomers + 1
  /\ Customers' = Customers @@ ((nCustomers + 1) :> regForm[c][1])
  /\ regForm' = [regForm EXCEPT ![c] = NoForm]
  /\ response' = Resp("register", c, "302", NoBody)
  /\ UNCHANGED <<Products, Orders, cart, user_id, inCheckout, nAdded>>

\* ---------------------------------------------------------- admin panel
\* ProductView over Products: edit a document's price, delete a document.
admin_edit_product(p, price) ==
  /\ HasProduct(p)
  /\ Products[p] # price
  /\ Products' = [Products EXCEPT ![p] = price]
  /\ response' = Resp("admin", "admin", "302", NoBody)
  /\ UNCHANGED <<Customers, nCustomers, Orders, cart, user_id, inCheckout,
                 regForm, nAdded>>

admin_delete_product(p) ==
  /\ HasProduct(p)
  /\ Products' = [q \in DOMAIN Products \ {p} |-> Products[q]]
  /\ response' = Resp("admin", "admin", "302", NoBody)
  /\ UNCHANGED <<Customers, nCustomers, Orders, cart, user_id, inCheckout,
                 regForm, nAdded>>

\* CustomAdminModelView over Customers: delete a document.
admin_delete_customer(i) ==
  /\ i \in DOMAIN Customers
  /\ Customers' = [j \in DOMAIN Customers \ {i} |-> Customers[j]]
  /\ response' = Resp("admin", "admin", "302", NoBody)
  /\ UNCHANGED <<Products, nCustomers, Orders, cart, user_id, inCheckout,
                 regForm, nAdded>>

\* ------------------------------------------------------- specifications
\* The state of a deployment whose collections hold the given documents and
\* whose browsers hold fresh sessions.
Start(products, customers) ==
  /\ Products = products
  /\ Customers = customers
  /\ nCustomers = Len(customers)
  /\ Orders = <<>>
  /\ cart = [s \in Sessions |-> <<>>]
  /\ user_id = [s \in Sessions |-> NoUser]
  /\ inCheckout = [s \in Sessions |-> FALSE]
  /\ regForm = [c \in Clients |-> NoForm]
  /\ nAdded = 0
  /\ response = Resp("start", "none", "none", NoBody)

Alice == [email |-> "a@x.io", phone |-> "111111"]
Bob   == [email |-> "b@x.io", phone |-> "222222"]

\* Checkout: two registered customers and a fixed catalog.  Two sessions log
\* in, fill their carts with well-formed requests and check out; a checkout
\* may stop before the cart is cleared; the first customer may be deleted.
Init == Start([p \in ProductIds |-> IF p = "p1" THEN 1 ELSE 2], <<Alice, Bob>>)

Next ==
  \/ \E s \in Sessions, p \in ProductIds : add_to_cart(s, Str(p), "1")
  \/ \E s \in Sessions : checkout(s)
  \/ \E s \in Sessions : checkout_pop(s)
  \/ \E s \in Sessions : checkout_stop(s)
  \/ \E s \in Sessions, c \in {Alice, Bob} : login(s, c.email, c.phone)
  \/ admin_delete_customer(1)

Spec == Init /\ [][Next]_vars

\* Catalog: one session fills its cart (with well-formed and malformed
\* requests), views it and checks it out while products are edited and deleted.
InitCatalog ==
  \E products \in [ProductIds -> Prices] : Start(products, <<Alice>>)

NextCatalog ==
  \/ \E product_id \in UrlIds, field \in {"0", "2", "two"} :
       add_to_cart("s1", product_id, field)
  \/ view_cart("s1")
  \/ checkout("s1")
  \/ checkout_pop("s1")
  \/ login("s1", Alice.email, Alice.phone)
  \/ \E p \in ProductIds, price \in Prices : admin_edit_product(p, price)
  \/ \E p \in ProductIds : admin_delete_product(p)

SpecCatalog == InitCatalog /\ [][NextCatalog]_vars

\* Registration: clients register and log in against an empty Customers
\* collection; the admin panel deletes customers.
InitRegister == Start([p \in ProductIds |-> 1], <<>>)

NextRegister ==
  \/ \E c \in Clients, form \in Forms : register(c, form)
  \/ \E c \in Clients : register_insert(c)
  \/ \E s \in Sessions, email \in FormEmails, phone \in FormPhones :
       login(s, email, phone)
  \/ \E i \in 1..MaxCustomers : admin_delete_customer(i)

SpecRegister == InitRegister /\ [][NextRegister]_vars

\* ================================================================ claims
Last(seq) == seq[Len(seq)]

\* The step in which session s's checkout wrote its Orders document.
Persists(s) == checkout(s) /\ Len(Orders') > Len(Orders)

\* The sum of price * quantity over the first n lines, from the last line back.
RECURSIVE LineSum(_, _)
LineSum(lines, n) ==
  IF n = 0 THEN 0
  ELSE LineSum(lines, n - 1) + lines[n].price * lines[n].quantity

\* C1: a checkout with a non-empty cart and a customer id in the session
\* appends exactly one Order (status 'pending', the session's customer id, the
\* cart's lines in order) and leaves every earlier Order as it was; when the
\* request completes the session cart is empty and Orders is not touched again.
C1_CheckoutPersistsOneOrder ==
  [][\A s \in Sessions :
       /\ (checkout(s) /\ cart[s] # <<>> /\ user_id[s] # NoUser) =>
            /\ Len(Orders') = Len(Orders) + 1
            /\ SubSeq(Orders', 1, Len(Orders)) = Orders
            /\ Last(Orders').status = "pending"
            /\ Last(Orders').customer_id = user_id[s]
            /\ Last(Orders').products = cart[s]
            /\ inCheckout'[s]
       /\ (inCheckout[s] /\ response' = Resp("checkout", s, "302", NoBody)) =>
            /\ cart'[s] = <<>>
            /\ Orders' = Orders]_vars

\* A completed checkout of the second customer, with the first customer's
\* Order already stored.
C1_Witness ==
  \E s \in Sessions :
    /\ response = Resp("checkout", s, "302", NoBody)
    /\ cart[s] = <<>>
    /\ user_id[s] = Str(2)
    /\ Len(Orders) = 2
    /\ Orders[1].customer_id = Str(1)
    /\ Orders[2].customer_id = Str(2)
    /\ Orders[1].products # Orders[2].products

\* C2: a checkout with an absent or empty session cart writes nothing: Orders,
\* the session carts and the sessions' customer ids stay as they were, and so
\* do the catalog and the customers.
C2_EmptyCartCheckoutWritesNothing ==
  [][\A s \in Sessions :
       (checkout(s) /\ cart[s] = <<>>) =>
         /\ Orders' = Orders
         /\ cart' = cart
         /\ user_id' = user_id
         /\ Products' = Products
         /\ Customers' = Customers
         /\ response'.status = "302"]_vars

\* An empty-cart checkout answered with the redirect, by a logged-in session
\* whose customer was deleted, with nothing ordered.
C2_Witness ==
  \E s \in Sessions :
    /\ response = Resp("checkout", s, "302", NoBody)
    /\ Orders = <<>>
    /\ cart[s] = <<>>
    /\ user_id[s] = Str(1)
    /\ 1 \notin DOMAIN Customers

\* C7 (as claimed): checkout writes an Order only when the session's customer
\* id names a Customers document that exists at that moment.
C7_OrderNamesExistingCustomer ==
  [][\A s \in Sessions :
       Persists(s) =>
         /\ user_id[s] # NoUser
         /\ \E i \in DOMAIN Customers : Str(i) = Last(Orders').customer_id]_vars

\* C10: checkout persists first and clears second.  The insert leaves the cart
\* as it was; a request that stops there leaves the Order stored and the cart
\* holding the same lines; and a checkout of a cart whose lines an Order already
\* holds persists one more Order with those lines and that total.
C10_StoppedCheckoutDuplicatesOnRetry ==
  [][\A s \in Sessions :
       /\ Persists(s) => cart' = cart
       /\ checkout_stop(s) =>
            /\ Orders' = Orders
            /\ cart'[s] = cart[s]
            /\ cart[s] # <<>>
            /\ \E i \in 1..Len(Orders) :
                 /\ Orders[i].products = cart'[s]
                 /\ Orders[i].customer_id = user_id[s]
       /\ (checkout(s) /\ cart[s] # <<>> /\ user_id[s] # NoUser) =>
            \A i \in 1..Len(Orders) :
              Orders[i].products = cart[s] =>
                /\ Len(Orders') = Len(Orders) + 1
                /\ Last(Orders').products = Orders[i].products
                /\ Last(Orders').total_price = Orders[i].total_price]_vars

\* The retry has persisted: two equal Orders, both holding the lines of a cart
\* that was never cleared (every line ever added is still in it).
C10_Witness ==
  \E s \in Sessions :
    /\ inCheckout[s]
    /\ Len(cart[s]) = 2
    /\ nAdded = 2
    /\ Len(Orders) = 2
    /\ Orders[1] = Orders[2]
    /\ Orders[2].products = cart[s]

\* ------------------------------------------------- claims on the catalog
\* The cart lines whose product the catalog holds, in cart order.
Resolved(c) == SelectSeq(c, LAMBDA l : HasProduct(ObjectId(l.product_id)))

\* The sum of the totals of the first n resolved lines.
RECURSIVE TotalSum(_, _)
TotalSum(details, n) ==
  IF n = 0 THEN 0 ELSE TotalSum(details, n - 1) + details[n].total

\* C3 (as claimed): checkout drops the lines whose product the catalog no
\* longer holds, and the Order's total is the grand total view_cart would show.
C3_CheckoutResolvesLikeView ==
  [][\A s \in Sessions :
       Persists(s) =>
         /\ \A k \in 1..Len(Last(Orders').products) :
              HasProduct(ObjectId(Last(Orders').products[k].product_id))
         /\ Last(Orders').total_price = ViewLoop(cart[s], <<>>, 0)[2]]_vars

\* C3 (amended): checkout stores every cart line as it is, resolved or not,
\* with the sum of add-time price * quantity as the total, which is the grand
\* total of view_cart when every line's product is in the catalog at the
\* line's price.
C3_CheckoutStoresCartAsIs ==
  [][\A s \in Sessions :
       Persists(s) =>
         /\ Last(Orders').products = cart[s]
         /\ Last(Orders').total_price = LineSum(cart[s], Len(cart[s]))
         /\ (\A k \in 1..Len(cart[s]) :
               /\ HasProduct(ObjectId(cart[s][k].product_id))
               /\ Products[ObjectId(cart[s][k].product_id)] = cart[s][k].price)
            => Last(Orders').total_price = ViewLoop(cart[s], <<>>, 0)[2]]_vars

\* The insert has just stored two lines, one of a product the catalog no
\* longer holds.
C3_Witness ==
  /\ response.route = "checkout"
  /\ response.status = "pending"
  /\ Len(Last(Orders).products) = 2
  /\ ~HasProduct(ObjectId(Last(Orders).products[1].product_id))
  /\ HasProduct(ObjectId(Last(Orders).products[2].product_id))

\* C4 (as claimed): every line of every session cart and of every persisted
\* Order has quantity >= 1.
C4_QuantitiesPositive ==
  /\ \A s \in Sessions : \A k \in 1..Len(cart[s]) : cart[s][k].quantity >= 1
  /\ \A i \in 1..Len(Orders) :
       \A k \in 1..Len(Orders[i].products) : Orders[i].products[k].quantity >= 1

\* C5: add_to_cart with an integer quantity and a product id the catalog
\* resolves appends one line for that product and quantity after the earlier
\* lines, which stay as they were, merged with none; any other add_to_cart
\* leaves the carts unchanged.  No other session's cart changes.
C5_AddOnlyAppends ==
  [][\A s \in Sessions, product_id \in UrlIds, field \in QuantityFields :
       add_to_cart(s, product_id, field) =>
         /\ \A o \in Sessions \ {s} : cart'[o] = cart[o]
         /\ IF CanInt(field) /\ IsObjectId(product_id)
               /\ HasProduct(ObjectId(product_id))
            THEN /\ Len(cart'[s]) = Len(cart[s]) + 1
                 /\ SubSeq(cart'[s], 1, Len(cart[s])) = cart[s]
                 /\ Last(cart'[s]).product_id = product_id
                 /\ Last(cart'[s]).quantity = IntOf[field]
            ELSE cart'[s] = cart[s]]_vars

\* Two adds of one product have given two lines.
C5_Witness ==
  \E s \in Sessions :
    /\ response = Resp("add_to_cart", s, "302", NoBody)
    /\ Len(cart[s]) = 2
    /\ cart[s][1].product_id = cart[s][2].product_id
    /\ cart[s][1].quantity = 2
    /\ cart[s][2].quantity = 2

\* C6: view_cart shows, in cart order, one line for each cart line whose
\* product the catalog holds and none for the others, each at the catalog's
\* current price with total price * quantity, and the sum of those totals as
\* the grand total; it leaves the session carts as they were.
C6_ViewResolvesAtCatalogPrice ==
  [][\A s \in Sessions :
       view_cart(s) =>
         LET lines   == Resolved(cart[s])
             details == response'.body[1]
         IN /\ Len(details) = Len(lines)
            /\ \A k \in 1..Len(lines) :
                 /\ details[k].quantity = lines[k].quantity
                 /\ details[k].price = Products[ObjectId(lines[k].product_id)]
                 /\ details[k].total = details[k].price * lines[k].quantity
            /\ response'.body[2] = TotalSum(details, Len(details))
            /\ (lines = <<>> => response'.body[2] = 0)
            /\ cart' = cart]_vars

\* A view of a two-line cart that drops the line of a deleted product and
\* shows the other line at a price changed since it was added.
C6_Witness ==
  \E s \in Sessions :
    /\ response.route = "view_cart"
    /\ response.who = s
    /\ Len(cart[s]) = 2
    /\ ~HasProduct(ObjectId(cart[s][1].product_id))
    /\ Len(response.body[1]) = 1
    /\ response.body[1][1].price # cart[s][2].price
    /\ response.body[2] > 0

\* C9: a line is added at the catalog price of that moment; the lines of a cart
\* stay as they are until the cart is cleared; checkout stores the cart's lines
\* with the sum of their price * quantity as the total; a stored Order is never
\* changed.  So every Order's total is that sum over its own lines.
C9_PricesFixedAtAddTime ==
  [][/\ \A s \in Sessions :
          /\ \A product_id \in UrlIds, field \in QuantityFields :
               (add_to_cart(s, product_id, field) /\ cart'[s] # cart[s]) =>
                 Last(cart'[s]).price = Products[ObjectId(product_id)]
          /\ cart'[s] # <<>> =>
               /\ Len(cart'[s]) >= Len(cart[s])
               /\ SubSeq(cart'[s], 1, Len(cart[s])) = cart[s]
          /\ Persists(s) => Last(Orders').products = cart[s]
     /\ Len(Orders') >= Len(Orders)
     /\ SubSeq(Orders', 1, Len(Orders)) = Orders
     /\ \A i \in 1..Len(Orders') :
          Orders'[i].total_price =
            LineSum(Orders'[i].products, Len(Orders'[i].products))]_vars

\* The insert has just stored a line whose product the catalog now sells at
\* another price, and a line whose product is deleted.
C9_Witness ==
  /\ response.route = "checkout"
  /\ response.status = "pending"
  /\ \E k \in 1..Len(Last(Orders).products) :
       LET line == Last(Orders).products[k]
       IN /\ HasProduct(ObjectId(line.product_id))
          /\ Products[ObjectId(line.product_id)] # line.price
          /\ line.quantity > 0
  /\ \E k \in 1..Len(Last(Orders).products) :
       ~HasProduct(ObjectId(Last(Orders).products[k].product_id))

\* -------------------------------------------- claims on the registration
\* C8 (as claimed): no two Customers documents have the same email.
C8_EmailsUnique ==
  \A i, j \in DOMAIN Customers :
    i # j => Customers[i].email # Customers[j].email

====
